---- MODULE Spec2Model ----
(***************************************************************************)
(* Focused work tracker: the FocusedWorkTracker session object, the        *)
(* CursorTracker sampler threads and the TrackerApp controller.            *)
(*                                                                         *)
(* The UI thread runs one handler at a time (Tk's event loop).  A          *)
(* CursorTracker thread runs concurrently with no lock, so its loop body   *)
(* is split at every point where the UI thread can run in between: the     *)
(* loop test, the state test, the probe query and the append (time.sleep   *)
(* changes nothing, so it is the end of the step before it).               *)
(*                                                                         *)
(* start_tracking sets is_tracking, then sets start_time and clears the    *)
(* logs, then waits for the window query of its register_window_change.    *)
(* A sampler thread scheduled after the flag is set can pass its state     *)
(* test and append before the clear(), or append after the clear() while   *)
(* the query is out, and the clock can advance meanwhile.  The call is     *)
(* therefore three steps, with ui_pc telling where the UI thread is inside *)
(* it.  (No thread but the UI thread reads start_time, total_time or       *)
(* window_changes, so the assignment of start_time and the two clear() are *)
(* one step.)  stop_tracking clears is_tracking, then start_time: two      *)
(* steps, and the handlers that call it go on from there in steps of their *)
(* own (TrackerApp.stop_tracking to cursor_tracker.stop() and the buttons, *)
(* on_closing to root.destroy()), so that a sampler thread can find        *)
(* is_tracking cleared while its running flag is still set.  pause_tracking*)
(* writes one field; resume_tracking writes is_paused and then start_time, *)
(* which the UI thread alone reads, so the two writes are one step.        *)
(*                                                                         *)
(* The clock is discrete: now counts whole seconds, and (b - a) is         *)
(* (b - a).total_seconds().  A log timestamp is the clock reading at the   *)
(* one-second resolution strftime('%H:%M:%S') keeps.  The label and the    *)
(* dialog that TrackerApp draws are not part of the state.                 *)
(***************************************************************************)
EXTENDS Integers, Sequences, FiniteSets, TLC

\* ---------------------------------------------------------------- bounds
MaxTime == 2
MaxSamples == 2
MaxChanges == 2
\* sampler threads alive at one time: in the window, and held by a caller
\* that drives the tracker directly
MaxSamplers == 2
MaxCallerSamplers == 1

\* ------------------------------------------------------------ input sets
Samplers == 1..MaxSamplers
CallerSamplers == 1..MaxCallerSamplers
\* The (x, y) readings of mouse.Controller().position.
Positions == {<<3, 4>>}
\* Window titles, and the texts str(e) of the exceptions the window query
\* raises.  A window can carry the very text of an exception as its title.
WindowTitles == {"Editor", "X error"}
ErrorMessages == {"X error"}

\* What gw.getActiveWindow() can do: return a window, return None, raise.
ProbeOutcomes ==
    {[kind |-> "window", text |-> t] : t \in WindowTitles}
    \cup {[kind |-> "none", text |-> ""]}
    \cup {[kind |-> "error", text |-> m] : m \in ErrorMessages}

\* Python's None, for a timestamp and for a title.
NoTime == -1
NoTitle == "None"
NoActiveWindow == "No active window"

NotAtStart == <<-1, -1>>
NoQuery == "no query"

VARIABLES
    \* FocusedWorkTracker
    active_window, start_time, total_time, is_tracking, is_paused,
    cursor_positions, window_changes,
    \* CursorTracker threads: position in run(), the running flag, the local (x, y)
    pc, running, position,
    \* TrackerApp
    cursor_tracker, start_button, pause_button, resume_button, stop_button,
    closed,
    \* whether root.after holds a pending update_active_window callback
    watcher_scheduled,
    \* the UI thread: "idle" between handlers; inside start_tracking, "clear"
    \* once is_tracking is set and "register" at its register_window_change;
    \* inside stop_tracking, "stop_clear" once is_tracking is cleared; then
    \* "sampler_stop" in TrackerApp.stop_tracking and "destroy" in on_closing
    \* ("closing_clear" being on_closing's "stop_clear")
    ui_pc,
    \* the clock read by datetime.now()
    now,
    \* history: the last call made on the tracker (a stop once its handler
    \* has returned), the calls since the last
    \* start ("s" start, "p"
    \* pause, "r" resume, "S" stop, "x" any other sequence), the total and the
    \* clock at the last start (kept while calls is no "x"; the clock is the
    \* one start_time was given, 0 until then), the probe readings
    \* taken since the last start (consecutive duplicates collapsed)
    last_call, calls, total0, t0, seen,
    \* history: the clock at the resume of a start, pause, resume sequence
    \* (0 outside calls = "spr")
    tr,
    \* history: from the clear() of a start until right after the start, the
    \* lengths of cursor_positions and of window_changes that the clear()
    \* found; NotAtStart after any other step outside a start
    at_start,
    \* history: the positions recorded during that start after its clear()
    \* (0 when at_start is NotAtStart)
    in_start,
    \* history: what the window query did that gave active_window its value,
    \* the same for each entry of window_changes, and what the latest query
    \* of a register_window_change did ("window", "none", "error"; NoQuery
    \* before the first)
    active_origin, origins, last_probe,
    \* the histories a specification keeps, fixed from its first state on:
    \* "calls" for calls, total0, t0, tr and seen; "start" for at_start and
    \* in_start; "origin" for active_origin, origins and last_probe
    kept

trackerVars == <<active_window, start_time, total_time, is_tracking, is_paused,
                 cursor_positions, window_changes>>
samplerVars == <<pc, running, position>>
appVars == <<cursor_tracker, start_button, pause_button, resume_button,
             stop_button, closed, watcher_scheduled>>
histVars == <<last_call, calls, total0, t0, seen, tr, active_origin, origins, last_probe>>
vars == <<trackerVars, samplerVars, appVars, ui_pc, now, histVars, at_start, in_start, kept>>

\* ------------------------------------------------------- pure operations
\* get_active_window, given what the window query did.
get_active_window(o) ==
    IF o.kind = "error" THEN o.text
    ELSE IF o.kind = "window" THEN o.text
    ELSE NoActiveWindow

\* Whether get_active_window lets the query's exception out: its try/except
\* catches every Exception.
get_active_window_raises(o) == FALSE

\* datetime.now().strftime('%Y-%m-%d %H:%M:%S') on the whole-second clock.
strftime(t) == t

\* register_window_change on a cache aw and a log wc, the query having done o.
register_window_change_always(aw, wc, o) ==
    LET current_window == get_active_window(o) IN
    [active_window |-> current_window,
     window_changes |-> Append(wc, <<strftime(now), current_window>>)]
register_window_change_overwrites(aw, wc, o) ==
    LET current_window == get_active_window(o) IN
    IF current_window # aw
    THEN [active_window |-> current_window,
          window_changes |-> <<<<strftime(now), current_window>>>>]
    ELSE [active_window |-> aw, window_changes |-> wc]
register_window_change(aw, wc, o) ==
    LET current_window == get_active_window(o) IN
    IF current_window # aw
    THEN [active_window |-> current_window,
          window_changes |-> Append(wc, <<strftime(now), current_window>>)]
    ELSE [active_window |-> aw, window_changes |-> wc]

\* list.clear()
clear_keeps(list) == list
clear(list) == <<>>

\* The guards of pause_tracking, resume_tracking and stop_tracking.
can_pause == is_tracking /\ ~is_paused
can_resume_untracked == is_paused
can_resume_unpaused == is_tracking
can_resume == is_tracking /\ is_paused
can_stop == is_tracking

\* resume_tracking's new start_time.
resume_start_time_kept == start_time
resume_start_time == now

\* stop_tracking's elapsed_time.
elapsed_time_unguarded == now - start_time
elapsed_time_reversed == IF ~is_paused THEN start_time - now ELSE 0
elapsed_time == IF ~is_paused THEN now - start_time ELSE 0

\* The session state of the specification, read off the two flags.
SessionState ==
    IF ~is_tracking THEN "NotTracking"
    ELSE IF is_paused THEN "Paused" ELSE "Running"

RECURSIVE Collapse(_)
\* A sequence with consecutive duplicates collapsed.
Collapse(s) ==
    IF Len(s) <= 1 THEN s
    ELSE LET rest == Collapse(SubSeq(s, 1, Len(s) - 1)) IN
         IF s[Len(s)] = rest[Len(rest)] THEN rest ELSE Append(rest, s[Len(s)])

LogTitles(wc) == [i \in 1..Len(wc) |-> wc[i][2]]

\* A history's new value where the specification keeps it.
Keep(h, new, old) == IF h \in kept THEN new ELSE old

\* The start history after a step that is no part of start_tracking.
OtherStep ==
    /\ at_start' = IF ui_pc = "idle" THEN NotAtStart ELSE at_start
    /\ in_start' = IF ui_pc = "idle" THEN 0 ELSE in_start
    /\ UNCHANGED kept

\* The history of a register_window_change, the window query having done o.
Origins(o) ==
    /\ last_probe' = Keep("origin", o.kind, last_probe)
    /\ IF get_active_window(o) # active_window
       THEN /\ active_origin' = Keep("origin", o.kind, active_origin)
            /\ origins' = Keep("origin", Append(origins, o.kind), origins)
       ELSE UNCHANGED <<active_origin, origins>>

\* ---------------------------------------------- FocusedWorkTracker calls
\* Each is the method's effect on the tracker and on the history.
\* start_tracking's first assignment: is_tracking = True.
Tracker_start_tracking ==
    /\ is_tracking' = TRUE
    /\ UNCHANGED <<active_window, start_time, total_time, is_paused,
                   cursor_positions, window_changes>>
    /\ last_call' = "start"
    /\ calls' = Keep("calls", "s", calls)
    /\ total0' = Keep("calls", total_time, total0)
    /\ t0' = 0
    /\ tr' = 0
    /\ UNCHANGED <<seen, active_origin, origins, last_probe, kept>>
    /\ at_start' = NotAtStart
    /\ in_start' = 0

\* start_tracking's start_time = datetime.now() and its two clear().
Tracker_start_tracking_clear ==
    /\ start_time' = now
    /\ cursor_positions' = clear(cursor_positions)
    /\ window_changes' = clear(window_changes)
    /\ UNCHANGED <<active_window, total_time, is_tracking, is_paused>>
    /\ t0' = Keep("calls", now, t0)
    /\ seen' = <<>>
    /\ origins' = <<>>
    /\ at_start' = Keep("start", <<Len(cursor_positions), Len(window_changes)>>, NotAtStart)
    /\ in_start' = 0
    /\ UNCHANGED <<last_call, calls, total0, tr, active_origin, last_probe, kept>>

\* start_tracking's register_window_change, the window query having done o.
Tracker_start_tracking_register(o) ==
    LET r == register_window_change(active_window, window_changes, o) IN
    /\ active_window' = r.active_window
    /\ window_changes' = r.window_changes
    /\ UNCHANGED <<start_time, total_time, is_tracking, is_paused, cursor_positions>>
    /\ seen' = Keep("calls", <<get_active_window(o)>>, seen)
    /\ Origins(o)
    /\ UNCHANGED <<last_call, calls, total0, t0, tr, at_start, in_start, kept>>

Tracker_pause_tracking ==
    /\ IF can_pause
       THEN is_paused' = TRUE
       ELSE UNCHANGED is_paused
    /\ UNCHANGED <<active_window, start_time, total_time, is_tracking,
                   cursor_positions, window_changes>>
    /\ last_call' = "pause"
    /\ OtherStep
    /\ calls' = IF calls = "s" THEN "sp" ELSE IF calls = "none" THEN "none" ELSE "x"
    /\ total0' = IF calls' = "x" THEN 0 ELSE total0
    /\ t0' = IF calls' = "x" THEN 0 ELSE t0
    /\ tr' = 0
    /\ UNCHANGED <<seen, active_origin, origins, last_probe>>

Tracker_resume_tracking ==
    /\ IF can_resume
       THEN is_paused' = FALSE /\ start_time' = resume_start_time
       ELSE UNCHANGED <<is_paused, start_time>>
    /\ UNCHANGED <<active_window, total_time, is_tracking,
                   cursor_positions, window_changes>>
    /\ last_call' = "resume"
    /\ OtherStep
    /\ calls' = IF calls = "sp" THEN "spr" ELSE IF calls = "none" THEN "none" ELSE "x"
    /\ total0' = IF calls' = "x" THEN 0 ELSE total0
    /\ t0' = IF calls' = "x" THEN 0 ELSE t0
    /\ tr' = IF calls' = "spr" THEN now ELSE 0
    /\ UNCHANGED <<seen, active_origin, origins, last_probe>>

\* stop_tracking up to is_tracking = False; where the test fails, all of it.
\* (last_call is the caller's to set, when the stop has returned.)
Tracker_stop_tracking ==
    /\ IF can_stop
       THEN /\ total_time' = total_time + elapsed_time
            /\ is_tracking' = FALSE
       ELSE UNCHANGED <<total_time, is_tracking>>
    /\ UNCHANGED <<active_window, start_time, is_paused, cursor_positions,
                   window_changes>>
    /\ OtherStep
    /\ calls' = CASE calls = "s" -> "sS"
                  [] calls = "sp" -> "spS"
                  [] calls = "spr" -> "sprS"
                  [] calls = "none" -> "none"
                  [] OTHER -> "x"
    /\ total0' = IF calls' = "x" THEN 0 ELSE total0
    /\ t0' = IF calls' = "x" THEN 0 ELSE t0
    /\ tr' = 0
    /\ UNCHANGED <<seen, active_origin, origins, last_probe>>

\* stop_tracking's start_time = None.
Tracker_stop_tracking_clear ==
    /\ start_time' = NoTime
    /\ UNCHANGED <<active_window, total_time, is_tracking, is_paused,
                   cursor_positions, window_changes>>
    /\ UNCHANGED <<calls, total0, t0, seen, tr, active_origin, origins, last_probe>>
    /\ OtherStep

\* register_window_change called on its own (by the window watcher).
Tracker_register_window_change(o) ==
    LET r == register_window_change(active_window, window_changes, o) IN
    /\ active_window' = r.active_window
    /\ window_changes' = r.window_changes
    /\ UNCHANGED <<start_time, total_time, is_tracking, is_paused, cursor_positions>>
    /\ seen' = IF calls = "none" THEN seen
               ELSE Collapse(Append(seen, get_active_window(o)))
    /\ Origins(o)
    /\ UNCHANGED <<last_call, calls, total0, t0, tr>>
    /\ OtherStep

\* ------------------------------------------------------------------ clock
Tick ==
    /\ now < MaxTime
    /\ now' = now + 1
    /\ UNCHANGED <<trackerVars, samplerVars, appVars, ui_pc, histVars>>
    /\ OtherStep

\* ---------------------------------------------------- CursorTracker.run
\* while self.running:
while_condition_true(s) == TRUE
while_condition(s) == running[s]

run_while(s) ==
    /\ pc[s] = "while"
    /\ pc' = [pc EXCEPT ![s] = IF while_condition(s) THEN "if" ELSE "exited"]
    /\ UNCHANGED <<trackerVars, running, position, appVars, ui_pc, now, histVars>>
    /\ OtherStep

\* if self.tracker.is_tracking and not self.tracker.is_paused: (else time.sleep(1))
run_if(s) ==
    /\ pc[s] = "if"
    /\ pc' = [pc EXCEPT ![s] = IF is_tracking /\ ~is_paused THEN "position" ELSE "while"]
    /\ UNCHANGED <<trackerVars, running, position, appVars, ui_pc, now, histVars>>
    /\ OtherStep

\* x, y = mouse.Controller().position, the query returning a position
run_position(s) ==
    /\ pc[s] = "position"
    /\ Len(cursor_positions) < MaxSamples
    /\ \E p \in Positions : position' = [position EXCEPT ![s] = p]
    /\ pc' = [pc EXCEPT ![s] = "record"]
    /\ UNCHANGED <<trackerVars, running, appVars, ui_pc, now, histVars>>
    /\ OtherStep

\* the same query raising: run() catches nothing, so the thread ends
run_position_raises(s) ==
    /\ pc[s] = "position"
    /\ pc' = [pc EXCEPT ![s] = "raised"]
    /\ UNCHANGED <<trackerVars, running, position, appVars, ui_pc, now, histVars>>
    /\ OtherStep

\* self.tracker.record_cursor_position((x, y)); time.sleep(1)
run_record(s) ==
    /\ pc[s] = "record"
    /\ cursor_positions' = Append(cursor_positions, position[s])
    /\ pc' = [pc EXCEPT ![s] = "while"]
    /\ position' = [position EXCEPT ![s] = <<0, 0>>]
    /\ UNCHANGED <<active_window, start_time, total_time, is_tracking, is_paused,
                   window_changes, running, appVars, ui_pc, now, histVars>>
    /\ at_start' = (IF ui_pc = "idle" THEN NotAtStart ELSE at_start)
    /\ in_start' = (IF ui_pc = "idle" THEN 0
                   ELSE IF ui_pc = "register" /\ "start" \in kept
                        THEN in_start + 1 ELSE in_start)
    /\ UNCHANGED kept

\* the steps of run() in which the position query returns
run_returns(s) ==
    \/ run_while(s)
    \/ run_if(s)
    \/ run_position(s)
    \/ run_record(s)

run(s) ==
    \/ run_returns(s)
    \/ run_position_raises(s)

\* A thread slot is free when no thread was created in it or its thread has ended.
FreeSlot(s) == pc[s] \in {"unborn", "exited", "raised"}
NewSlot == CHOOSE s \in Samplers : FreeSlot(s) /\ \A r \in Samplers : FreeSlot(r) => s <= r

\* CursorTracker(tracker).start()
CursorTracker_start(s) ==
    /\ pc' = [pc EXCEPT ![s] = "while"]
    /\ running' = [running EXCEPT ![s] = TRUE]
    /\ position' = [position EXCEPT ![s] = <<0, 0>>]

\* CursorTracker.stop
CursorTracker_stop_forgets(s) == UNCHANGED <<running, pc, position>>
CursorTracker_stop(s) ==
    /\ running' = [running EXCEPT ![s] = FALSE]
    /\ UNCHANGED <<pc, position>>

\* -------------------------------------------------- the window watcher
\* TrackerApp.update_active_window, run from root.after: register_window_change,
\* then the label, then root.after again.  An exception that left
\* get_active_window would end the callback before it rescheduled itself.
update_active_window ==
    /\ ui_pc = "idle"
    /\ ~closed
    /\ watcher_scheduled
    /\ Len(window_changes) < MaxChanges
    /\ \E o \in ProbeOutcomes :
          IF get_active_window_raises(o)
          THEN /\ watcher_scheduled' = FALSE
               /\ UNCHANGED <<trackerVars, histVars>>
               /\ OtherStep
          ELSE /\ Tracker_register_window_change(o)
               /\ watcher_scheduled' = TRUE
    /\ UNCHANGED <<samplerVars, cursor_tracker, start_button, pause_button,
                   resume_button, stop_button, closed, ui_pc, now>>

\* TrackerApp.show_statistics reads the tracker and queries the window once.
show_statistics ==
    /\ ui_pc = "idle"
    /\ ~closed
    /\ UNCHANGED <<trackerVars, samplerVars, appVars, ui_pc, now, histVars>>
    /\ OtherStep

\* ------------------------------------- calls on the tracker, in any state
start_tracking ==
    /\ ui_pc = "idle"
    /\ Tracker_start_tracking
    /\ ui_pc' = "clear"
    /\ UNCHANGED <<samplerVars, appVars, now>>

start_tracking_clear ==
    /\ ui_pc = "clear"
    /\ Tracker_start_tracking_clear
    /\ ui_pc' = "register"
    /\ UNCHANGED <<samplerVars, appVars, now>>

start_tracking_register ==
    /\ ui_pc = "register"
    /\ \E o \in ProbeOutcomes : Tracker_start_tracking_register(o)
    /\ ui_pc' = "idle"
    /\ UNCHANGED <<samplerVars, appVars, now>>

pause_tracking ==
    /\ ui_pc = "idle"
    /\ Tracker_pause_tracking
    /\ UNCHANGED <<samplerVars, appVars, ui_pc, now>>

resume_tracking ==
    /\ ui_pc = "idle"
    /\ Tracker_resume_tracking
    /\ UNCHANGED <<samplerVars, appVars, ui_pc, now>>

stop_tracking ==
    /\ ui_pc = "idle"
    /\ Tracker_stop_tracking
    /\ ui_pc' = IF can_stop THEN "stop_clear" ELSE "idle"
    /\ last_call' = IF can_stop THEN last_call ELSE "stop"
    /\ UNCHANGED <<samplerVars, appVars, now>>

stop_tracking_clear ==
    /\ ui_pc = "stop_clear"
    /\ Tracker_stop_tracking_clear
    /\ ui_pc' = "idle"
    /\ last_call' = "stop"
    /\ UNCHANGED <<samplerVars, appVars, now>>

\* A sampler thread created and started on the tracker, by a caller that
\* holds at most MaxCallerSamplers live threads.
sampler_start ==
    /\ ui_pc = "idle"
    /\ \E s \in CallerSamplers : FreeSlot(s)
    /\ CursorTracker_start(NewSlot)
    /\ UNCHANGED <<trackerVars, appVars, ui_pc, now, histVars>>
    /\ OtherStep

sampler_stop(s) ==
    /\ ui_pc = "idle"
    /\ pc[s] \notin {"unborn"}
    /\ running[s]
    /\ CursorTracker_stop(s)
    /\ UNCHANGED <<trackerVars, appVars, ui_pc, now, histVars>>
    /\ OtherStep

\* ------------------------------------------------------------ TrackerApp
\* TrackerApp.start_tracking: the click, into tracker.start_tracking().  The
\* handler creates a new thread whatever threads are still alive; the model
\* holds MaxSamplers live threads and takes no click that would need more.
TrackerApp_start_tracking ==
    /\ ui_pc = "idle"
    /\ ~closed
    /\ start_button
    /\ \E s \in Samplers : FreeSlot(s)
    /\ Tracker_start_tracking
    /\ ui_pc' = "clear"
    /\ UNCHANGED <<samplerVars, appVars, now>>

\* on to the window query of tracker.start_tracking()
TrackerApp_start_tracking_clear ==
    /\ ui_pc = "clear"
    /\ Tracker_start_tracking_clear
    /\ ui_pc' = "register"
    /\ UNCHANGED <<samplerVars, appVars, now>>

\* the rest of it: the register_window_change, the buttons, the new thread
TrackerApp_start_tracking_register ==
    /\ ui_pc = "register"
    /\ \E o \in ProbeOutcomes : Tracker_start_tracking_register(o)
    /\ ui_pc' = "idle"
    /\ start_button' = FALSE
    /\ pause_button' = TRUE
    /\ resume_button' = FALSE
    /\ stop_button' = TRUE
    /\ cursor_tracker' = NewSlot
    /\ CursorTracker_start(NewSlot)
    /\ UNCHANGED <<closed, watcher_scheduled, now>>

TrackerApp_pause_tracking ==
    /\ ui_pc = "idle"
    /\ ~closed
    /\ pause_button
    /\ Tracker_pause_tracking
    /\ pause_button' = FALSE
    /\ resume_button' = TRUE
    /\ UNCHANGED <<start_button, stop_button, cursor_tracker, closed,
                   watcher_scheduled, samplerVars, ui_pc, now>>

TrackerApp_resume_tracking ==
    /\ ui_pc = "idle"
    /\ ~closed
    /\ resume_button
    /\ Tracker_resume_tracking
    /\ pause_button' = TRUE
    /\ resume_button' = FALSE
    /\ UNCHANGED <<start_button, stop_button, cursor_tracker, closed,
                   watcher_scheduled, samplerVars, ui_pc, now>>

\* TrackerApp.stop_tracking: the click, into tracker.stop_tracking() up to
\* is_tracking = False
TrackerApp_stop_tracking ==
    /\ ui_pc = "idle"
    /\ ~closed
    /\ stop_button
    /\ Tracker_stop_tracking
    /\ ui_pc' = IF can_stop THEN "stop_clear" ELSE "sampler_stop"
    /\ UNCHANGED <<last_call, samplerVars, appVars, now>>

\* the start_time = None of tracker.stop_tracking()
TrackerApp_stop_tracking_clear ==
    /\ ui_pc = "stop_clear"
    /\ Tracker_stop_tracking_clear
    /\ ui_pc' = "sampler_stop"
    /\ UNCHANGED <<last_call, samplerVars, appVars, now>>

\* the rest of it: cursor_tracker.stop(), cursor_tracker = None, the buttons
TrackerApp_stop_tracking_sampler ==
    /\ ui_pc = "sampler_stop"
    /\ IF cursor_tracker # 0
       THEN CursorTracker_stop(cursor_tracker) /\ cursor_tracker' = 0
       ELSE UNCHANGED <<samplerVars, cursor_tracker>>
    /\ start_button' = TRUE
    /\ pause_button' = FALSE
    /\ resume_button' = FALSE
    /\ stop_button' = FALSE
    /\ ui_pc' = "idle"
    /\ last_call' = "stop"
    /\ UNCHANGED <<trackerVars, closed, watcher_scheduled, now>>
    /\ UNCHANGED <<calls, total0, t0, seen, tr, active_origin, origins, last_probe>>
    /\ OtherStep

\* WM_DELETE_WINDOW: if the tracker is tracking, into tracker.stop_tracking()
\* up to is_tracking = False; if it is not, root.destroy().
on_closing ==
    /\ ui_pc = "idle"
    /\ ~closed
    /\ IF is_tracking
       THEN /\ Tracker_stop_tracking
            /\ ui_pc' = "closing_clear"
            /\ UNCHANGED closed
       ELSE /\ UNCHANGED <<trackerVars, calls, total0, t0, seen, tr,
                           active_origin, origins, last_probe>>
            /\ OtherStep
            /\ UNCHANGED ui_pc
            /\ closed' = TRUE
    /\ UNCHANGED <<last_call, samplerVars, cursor_tracker, start_button, pause_button,
                   resume_button, stop_button, watcher_scheduled, now>>

\* the start_time = None of on_closing's tracker.stop_tracking()
on_closing_clear ==
    /\ ui_pc = "closing_clear"
    /\ Tracker_stop_tracking_clear
    /\ ui_pc' = "destroy"
    /\ UNCHANGED <<last_call, samplerVars, appVars, now>>

\* on_closing's root.destroy() after the stop
on_closing_destroy ==
    /\ ui_pc = "destroy"
    /\ closed' = TRUE
    /\ ui_pc' = "idle"
    /\ last_call' = "stop"
    /\ UNCHANGED <<trackerVars, samplerVars, cursor_tracker, start_button, pause_button,
                   resume_button, stop_button, watcher_scheduled, now>>
    /\ UNCHANGED <<calls, total0, t0, seen, tr, active_origin, origins, last_probe>>
    /\ OtherStep

\* --------------------------------------------------------- specifications
\* After FocusedWorkTracker.__init__ (and the widgets as TrackerApp.__init__
\* creates them), no sampler thread created.
InitTracker ==
    /\ active_window = NoTitle
    /\ start_time = NoTime
    /\ total_time = 0
    /\ is_tracking = FALSE
    /\ is_paused = FALSE
    /\ cursor_positions = <<>>
    /\ window_changes = <<>>

\* No sampler thread created.
InitSamplers ==
    /\ pc = [s \in Samplers |-> "unborn"]
    /\ running = [s \in Samplers |-> FALSE]
    /\ position = [s \in Samplers |-> <<0, 0>>]

InitRest ==
    /\ cursor_tracker = 0
    /\ start_button = TRUE
    /\ pause_button = FALSE
    /\ resume_button = FALSE
    /\ stop_button = FALSE
    /\ closed = FALSE
    /\ watcher_scheduled = TRUE
    /\ now = 0
    /\ last_call = "none"
    /\ calls = "none"
    /\ total0 = 0
    /\ t0 = 0
    /\ seen = <<>>
    /\ tr = 0
    /\ at_start = NotAtStart
    /\ in_start = 0
    /\ ui_pc = "idle"

\* No window query made yet.
InitOrigins ==
    /\ active_origin = NoQuery
    /\ origins = <<>>
    /\ last_probe = NoQuery

Init ==
    /\ InitTracker
    /\ InitSamplers
    /\ InitRest
    /\ InitOrigins
    /\ kept = {"calls", "origin"}

\* The tracker driven by any caller, with the window watcher and the clock.
Next ==
    \/ start_tracking
    \/ start_tracking_clear
    \/ start_tracking_register
    \/ pause_tracking
    \/ resume_tracking
    \/ stop_tracking
    \/ stop_tracking_clear
    \/ update_active_window
    \/ show_statistics
    \/ Tick

Spec == Init /\ [][Next]_vars

SamplerInit ==
    /\ InitTracker
    /\ InitSamplers
    /\ InitRest
    /\ InitOrigins
    /\ kept = {"start"}

\* The tracker driven by any caller, with sampler threads and the clock.
SamplerNext ==
    \/ start_tracking
    \/ start_tracking_clear
    \/ start_tracking_register
    \/ pause_tracking
    \/ resume_tracking
    \/ stop_tracking
    \/ stop_tracking_clear
    \/ sampler_start
    \/ \E s \in Samplers : sampler_stop(s)
    \/ \E s \in Samplers : run(s)
    \/ Tick

SamplerSpec == SamplerInit /\ [][SamplerNext]_vars

CallerInit ==
    /\ InitTracker
    /\ InitSamplers
    /\ InitRest
    /\ InitOrigins
    /\ kept = {}

\* The same, keeping no history but last_call.
CallerSpec == CallerInit /\ [][SamplerNext]_vars

\* The tracker and the sampler threads without the clock, every thread being
\* scheduled again and again (the operating system's scheduler) and its
\* position queries returning.
ThreadNext ==
    \/ start_tracking
    \/ start_tracking_clear
    \/ start_tracking_register
    \/ pause_tracking
    \/ resume_tracking
    \/ stop_tracking
    \/ stop_tracking_clear
    \/ sampler_start
    \/ \E s \in Samplers : sampler_stop(s)
    \/ \E s \in Samplers : run(s)

ThreadSpec ==
    /\ CallerInit
    /\ [][ThreadNext]_vars
    /\ \A s \in Samplers : WF_vars(run_returns(s))

\* After FocusedWorkTracker.__init__ and CursorTracker(tracker).start(): one
\* sampler thread at the top of its loop.
TotalInit ==
    /\ InitTracker
    /\ pc = [s \in Samplers |-> IF s = 1 THEN "while" ELSE "unborn"]
    /\ running = [s \in Samplers |-> s = 1]
    /\ position = [s \in Samplers |-> <<0, 0>>]
    /\ InitRest
    /\ InitOrigins
    /\ kept = {}

\* The tracker with that sampler thread, driven by any caller, with the
\* window watcher, the statistics reads and the clock.
TotalNext ==
    \/ start_tracking
    \/ start_tracking_clear
    \/ start_tracking_register
    \/ pause_tracking
    \/ resume_tracking
    \/ stop_tracking
    \/ stop_tracking_clear
    \/ update_active_window
    \/ show_statistics
    \/ \E s \in Samplers : sampler_stop(s)
    \/ \E s \in Samplers : run(s)
    \/ Tick

TotalSpec == TotalInit /\ [][TotalNext]_vars

\* After TrackerApp.__init__, which ends with one update_active_window().
WindowInit ==
    /\ InitSamplers
    /\ InitRest
    /\ \E o \in ProbeOutcomes :
          LET r == register_window_change(NoTitle, <<>>, o) IN
          /\ active_window = r.active_window
          /\ window_changes = r.window_changes
          /\ active_origin = Keep("origin", o.kind, NoQuery)
          /\ origins = Keep("origin", <<o.kind>>, <<>>)
          /\ last_probe = Keep("origin", o.kind, NoQuery)
    /\ start_time = NoTime
    /\ total_time = 0
    /\ is_tracking = FALSE
    /\ is_paused = FALSE
    /\ cursor_positions = <<>>

\* The application: the controls clicked while enabled, the window watcher,
\* the sampler threads and the clock.
AppNext ==
    \/ TrackerApp_start_tracking
    \/ TrackerApp_start_tracking_clear
    \/ TrackerApp_start_tracking_register
    \/ TrackerApp_pause_tracking
    \/ TrackerApp_resume_tracking
    \/ TrackerApp_stop_tracking
    \/ TrackerApp_stop_tracking_clear
    \/ TrackerApp_stop_tracking_sampler
    \/ on_closing
    \/ on_closing_clear
    \/ on_closing_destroy
    \/ update_active_window
    \/ show_statistics
    \/ \E s \in Samplers : run(s)
    \/ Tick

AppInit ==
    /\ kept = {"origin"}
    /\ WindowInit

AppSpec == AppInit /\ [][AppNext]_vars

\* The same window with the clock standing still: the clicks, the window
\* watcher and the sampler threads in every order.
ClicksNext ==
    \/ TrackerApp_start_tracking
    \/ TrackerApp_start_tracking_clear
    \/ TrackerApp_start_tracking_register
    \/ TrackerApp_pause_tracking
    \/ TrackerApp_resume_tracking
    \/ TrackerApp_stop_tracking
    \/ TrackerApp_stop_tracking_clear
    \/ TrackerApp_stop_tracking_sampler
    \/ on_closing
    \/ on_closing_clear
    \/ on_closing_destroy
    \/ update_active_window
    \/ show_statistics
    \/ \E s \in Samplers : run(s)

ClicksInit ==
    /\ kept = {}
    /\ WindowInit

ClicksSpec == ClicksInit /\ [][ClicksNext]_vars

\* ------------------------------------------------------------------ claims
\* C1: after every start/pause/resume/stop call the session state follows the
\* transition table: start leads to Running from any state; pause leads from
\* Running to Paused and otherwise changes nothing; resume leads from Paused
\* to Running and otherwise changes nothing; stop leads from Running or
\* Paused to not tracking and otherwise changes nothing.
C1_TransitionTable ==
    [][/\ start_tracking_register => SessionState' = "Running"
       /\ pause_tracking =>
            SessionState' = (IF SessionState = "Running" THEN "Paused" ELSE SessionState)
       /\ resume_tracking =>
            SessionState' = (IF SessionState = "Paused" THEN "Running" ELSE SessionState)
       /\ stop_tracking => SessionState' = "NotTracking"]_vars

\* C2: a stop that follows a start with no call between the two adds to
\* total_time exactly the clock time elapsed since that start.
C2_StartStopAddsElapsed ==
    [][(calls = "s" /\ stop_tracking) => total_time' = total0 + (now - t0)]_vars

\* C3: a stop made while the session is Paused adds 0 to total_time, and after
\* start, pause, stop total_time is what it was before the start, however
\* much time passed between the calls.
C3_StopWhilePausedAddsZero ==
    /\ [](calls = "spS" => total_time = total0)
    /\ [][(stop_tracking /\ SessionState = "Paused") => total_time' = total_time]_vars

\* C3 witness: start, pause, stop was called over a time that passed, after an
\* earlier session that left a total.
C3_Witness ==
    /\ calls = "spS"
    /\ last_call = "stop"
    /\ now > t0
    /\ total0 > 0
    /\ total_time = total0

\* C4: whenever a sample is appended to cursor_positions, the session is
\* tracking and not paused at that moment.
C4_SamplesOnlyWhileRunning ==
    [][Len(cursor_positions') > Len(cursor_positions) => SessionState = "Running"]_vars

\* C5: once start was called and has returned, the titles of window_changes
\* are the probe readings taken since that start, start's own first, with
\* consecutive duplicates collapsed (so the log is not empty after start).
C5_LogIsCollapsedReadings ==
    (calls # "none" /\ ui_pc = "idle") => LogTitles(window_changes) = seen

\* C6: when start returns, cursor_positions holds only the positions that
\* were recorded during the call, after its clear(), and window_changes holds
\* at most the one entry that start itself appended, whatever the two logs
\* held before.
C6_StartClearsLogs ==
    (at_start # NotAtStart /\ ui_pc = "idle") =>
        /\ Len(cursor_positions) = in_start
        /\ Len(window_changes) <= 1
        /\ \A i \in 1..Len(window_changes) :
              window_changes[i] = <<strftime(now), active_window>>

\* C6 witness: a start that found samples and window changes in the logs,
\* and during which a sampler thread recorded a position.
C6_Witness ==
    /\ at_start # NotAtStart
    /\ ui_pc = "idle"
    /\ at_start[1] > 0
    /\ at_start[2] > 0
    /\ last_call = "start"
    /\ in_start > 0
    /\ Len(cursor_positions) = in_start

\* C7: pause outside Running, resume outside Paused and stop while not
\* tracking change no field of the tracker.
C7_InvalidCommandsAreNoOps ==
    [][(\/ pause_tracking /\ SessionState # "Running"
        \/ resume_tracking /\ SessionState # "Paused"
        \/ stop_tracking /\ SessionState = "NotTracking")
       => UNCHANGED trackerVars]_vars

\* C7 witness: the last call was a pause while not tracking, with a sample, a
\* window change and a total in the tracker for it to leave alone.
C7_Witness ==
    /\ last_call = "pause"
    /\ SessionState = "NotTracking"
    /\ cursor_positions # <<>>
    /\ window_changes # <<>>
    /\ total_time > 0

\* C8: once the controller's stop command has returned, no sample is appended
\* to cursor_positions until the next start.
C8_NoSampleAfterStop ==
    [][(last_call = "stop" /\ ~is_tracking /\ ~closed)
       => Len(cursor_positions') <= Len(cursor_positions)]_vars

\* C9: a failing PointerProbe query never ends a sampler thread: no thread is
\* ever in the state of having been ended by the exception.
C9_ProbeFailureKeepsLoop ==
    \A s \in Samplers : pc[s] # "raised"

\* C10: a failing WindowProbe query reads as the "no active window" sentinel:
\* neither the cached title nor any log entry carries a value derived from
\* the failure.
C10_FailureReadsAsSentinel ==
    /\ active_origin = "error" => active_window = NoActiveWindow
    /\ \A i \in 1..Len(window_changes) :
          origins[i] = "error" => window_changes[i][2] = NoActiveWindow


\* The buttons the window shows for a session state: start alone when not
\* tracking, pause and stop when running, resume and stop when paused.
ButtonsFor(st) ==
    CASE st = "NotTracking" -> <<TRUE, FALSE, FALSE, FALSE>>
      [] st = "Running"     -> <<FALSE, TRUE, FALSE, TRUE>>
      [] st = "Paused"      -> <<FALSE, FALSE, TRUE, TRUE>>

\* C11: while the window is open and no handler is running, the enabled
\* buttons are the ones of the tracker's session state: start alone when not
\* tracking, pause and stop when running, resume and stop when paused.
C11_ControlsMatchState ==
    (~closed /\ ui_pc = "idle") =>
        <<start_button, pause_button, resume_button, stop_button>>
            = ButtonsFor(SessionState)

\* C12: in a start, pause, resume, stop sequence the stop adds exactly the
\* time since the resume; the time before the pause and the paused time
\* are not added.
C12_ResumeRestartsSegment ==
    [][(calls = "spr" /\ stop_tracking) =>
          total_time' = total0 + (now - tr)]_vars

C12_Witness ==
    /\ calls = "sprS"
    /\ last_call = "stop"
    /\ total_time > total0
    /\ total_time - total0 < now - t0

\* C13: total_time is never negative, and a step changes it only if the
\* step is a stop, which only raises it: start, pause, resume, the window
\* watcher's ticks, the sampler thread's steps, the statistics reads and the
\* clock leave it as it is.
C13_TotalOnlyGrowsAtStop ==
    /\ [](total_time >= 0)
    /\ [][total_time' # total_time =>
            (stop_tracking /\ total_time' > total_time)]_vars

\* C13 witness: tracking, with a total that an earlier session left and the
\* start did not reset, a running segment that the total does not include,
\* and both logs filled by watcher ticks and sampler steps.
C13_Witness ==
    /\ ui_pc = "idle"
    /\ last_call = "start"
    /\ is_tracking
    /\ ~is_paused
    /\ total_time > 0
    /\ start_time # NoTime
    /\ now > start_time
    /\ cursor_positions # <<>>
    /\ Len(window_changes) >= 2

\* C14: a window check either leaves the cached title and the log alone, or
\* changes the cached title and appends one entry carrying the new title;
\* no two neighbouring entries of the log carry the same title.
C14_LogEntriesAlternate ==
    /\ [](\A i \in 1..(Len(window_changes) - 1) :
            window_changes[i][2] # window_changes[i + 1][2])
    /\ [][update_active_window =>
            \/ /\ active_window' = active_window
               /\ window_changes' = window_changes
            \/ /\ active_window' # active_window
               /\ window_changes' =
                    Append(window_changes, <<strftime(now), active_window'>>)]_vars

C14_Witness ==
    /\ Len(window_changes) >= 2
    /\ window_changes[Len(window_changes)][2] = active_window
    /\ window_changes[Len(window_changes) - 1][2] # active_window


\* A sampler thread that has been started and has neither left its loop nor
\* died.
Alive(s) == pc[s] \notin {"unborn", "exited", "raised"}

\* C15: whenever the session is not tracking because of a stop, made by the
\* stop button or by closing the window, every sampler thread still alive
\* has had its running flag cleared.
C15_StopSignalsSampler ==
    (last_call = "stop" /\ ~is_tracking) =>
        \A s \in Samplers : Alive(s) => ~running[s]


\* The steps a sampler thread has left before it leaves its loop, once its
\* running flag is cleared.
StepsLeft(s) ==
    CASE pc[s] = "if"       -> 4
      [] pc[s] = "position" -> 3
      [] pc[s] = "record"   -> 2
      [] pc[s] = "while"    -> 1
      [] OTHER              -> 0

\* A thread about to query the position while the log holds MaxSamples
\* entries: the model takes no further sample.
AtBound(s) == pc[s] = "position" /\ Len(cursor_positions) >= MaxSamples

\* C16: a sampler thread whose running flag is cleared keeps it cleared, and
\* each of its steps brings it nearer to the end of the loop, so that it
\* records at most one more position; scheduled fairly, it ends (unless the
\* bound on the log holds it at its position query).
C16_StoppedSamplerExits ==
    /\ [][\A s \in Samplers :
            (Alive(s) /\ ~running[s]) =>
                /\ Alive(s)' => ~running'[s]
                /\ pc'[s] # pc[s] => StepsLeft(s)' < StepsLeft(s)]_vars
    /\ \A s \in Samplers : (Alive(s) /\ ~running[s]) ~> (~Alive(s) \/ AtBound(s))

C16_Witness ==
    \E s \in Samplers :
        /\ pc[s] = "exited"
        /\ ~running[s]
        /\ ~is_tracking
        /\ cursor_positions # <<>>


\* a is a prefix of b
IsPrefix(a, b) == Len(a) <= Len(b) /\ SubSeq(b, 1, Len(a)) = a

\* C17: every step of the window but the clear() of a click on Start leaves
\* each of the two logs with its previous value as a prefix.
C17_LogsAppendOnly ==
    [][~TrackerApp_start_tracking_clear =>
          /\ IsPrefix(window_changes, window_changes')
          /\ IsPrefix(cursor_positions, cursor_positions')]_vars

\* C17 witness: after a stop, both logs hold entries that were appended to
\* entries already there.
C17_Witness ==
    /\ ui_pc = "idle"
    /\ last_call = "stop"
    /\ ~is_tracking
    /\ Len(window_changes) >= 2
    /\ Len(cursor_positions) >= 2


\* C18: while the window is open a watcher tick is always pending and can
\* run whatever the session state, once the UI thread is free; and a title
\* read after a failed query is recorded: whenever the latest query of a
\* window check returned a window's title, the cached title stems from a
\* query that returned a window, not from a failure before it.
C18_WatcherKeepsTicking ==
    /\ ~closed =>
          /\ watcher_scheduled
          /\ (ui_pc = "idle" /\ Len(window_changes) < MaxChanges) =>
                ENABLED update_active_window
    /\ last_probe = "window" => active_origin = "window"


\* Inside stop_tracking, is_tracking cleared and start_time not yet.
InStopBeforeClear == ui_pc \in {"stop_clear", "closing_clear"}

\* C19 as stated: in every state, start_time holds a timestamp, not later
\* than the clock, exactly when the tracker is tracking, so that
\* stop_tracking never subtracts from a cleared start_time.
C19_StartTimeSetIffTracking ==
    /\ is_tracking => (start_time # NoTime /\ start_time <= now)
    /\ ~is_tracking => start_time = NoTime
    /\ can_stop => start_time # NoTime

\* C19 amended: the same in every state but the two in which a call has
\* written is_tracking and not yet start_time: inside start_tracking, the
\* flag set and start_time not yet assigned, and inside stop_tracking, the
\* flag cleared and start_time not yet None; whenever stop_tracking can be
\* called and would subtract, start_time holds a timestamp.
C19_StartTimeFollowsTracking ==
    /\ (is_tracking /\ ui_pc # "clear") =>
          (start_time # NoTime /\ start_time <= now)
    /\ (~is_tracking /\ ~InStopBeforeClear) => start_time = NoTime
    /\ (ui_pc = "idle" /\ can_stop) => start_time # NoTime

\* C19 witness: a stop made while paused has returned, with a sampler thread
\* alive, after a session that added to the total.
C19_Witness ==
    /\ ui_pc = "idle"
    /\ last_call = "stop"
    /\ ~is_tracking
    /\ is_paused
    /\ start_time = NoTime
    /\ total_time > 0
    /\ \E s \in Samplers : Alive(s)


\* C20: at most one sampler thread has its running flag set, and it is the
\* one the window holds in cursor_tracker; whenever Start can be clicked no
\* thread has the flag set.
C20_OneRunningSampler ==
    /\ Cardinality({s \in Samplers : running[s]}) <= 1
    /\ \A s \in Samplers : running[s] => cursor_tracker = s
    /\ (~closed /\ start_button) => \A s \in Samplers : ~running[s]

\* C20 witness: the thread of an earlier start, its flag cleared by the stop,
\* is still alive beside the running thread of the start that followed.
C20_Witness ==
    /\ ~closed
    /\ ui_pc = "idle"
    /\ \E s, r \in Samplers :
          /\ s # r
          /\ Alive(s) /\ running[s] /\ cursor_tracker = s
          /\ Alive(r) /\ ~running[r]

====
